---- MODULE Spec2Model ----
(***************************************************************************)
(* handytail / termtail: a line filter that resolves backspaces, strips    *)
(* control characters and exits on the first line that matches a success   *)
(* or a failure pattern.                                                   *)
(*                                                                         *)
(* Two programs are modelled: the minimal variant (src/main.go) and the    *)
(* extended variant (src/unnamed/part_001).  Strings are sequences of      *)
(* bytes, as in Go; processLine decodes them to code points, edits the     *)
(* code points and encodes the result again.                               *)
(*                                                                         *)
(* Spec    runs main() of either variant on a bounded command line and a   *)
(*         bounded input stream.                                           *)
(* SpecPL  runs processLine's scan one code point at a time on every       *)
(*         bounded byte string.                                            *)
(***************************************************************************)
EXTENDS Integers, Sequences, FiniteSets, TLC

VARIABLES
    variant,          \* "minimal" (src/main.go) or "extended" (part_001)
    successPatterns,  \* RegexSlice of the -success flags
    failurePatterns,  \* RegexSlice of the -failure flags
    quiet,            \* -quiet
    showHelp,         \* -help
    invalidGiven,     \* some pattern flag's value was not a regular expression
    nargs,            \* len(flag.Args())
    input,            \* the stream behind the scanner: its lines, and how it ends
    source,           \* "none", "stdin" or "file": what `input` was bound to
    fileState,        \* "none", "open" or "closed": the os.File of args[0]
    nread,            \* lines scanner.Scan() has delivered
    processedLine,    \* processedLine of the current loop iteration
    si,               \* success patterns evaluated for the current line
    fi,               \* failure patterns evaluated for the current line
    evals,            \* MatchString calls made so far
    stdout,           \* lines printed by fmt.Println
    stderr,           \* messages written to os.Stderr
    pc,               \* position of main()
    exitStatus,       \* process exit status, -1 while running
    plLine,           \* processLine: argument `line`
    plPos,            \* processLine: byte offset of the range loop (1-based)
    plResult,         \* processLine: `result`
    plScanned,        \* processLine: code points the range loop has yielded
    plOut,            \* processLine: returned string
    plPc              \* processLine: "idle", "scan" or "done"

mainVars == <<variant, successPatterns, failurePatterns, quiet, showHelp,
              invalidGiven, nargs, input, source, fileState,
              nread, processedLine, si, fi, evals, stdout, stderr, pc,
              exitStatus>>

plVars == <<plLine, plPos, plResult, plScanned, plOut, plPc>>

vars == <<mainVars, plVars>>

(***************************************************************************)
(* Bounds                                                                  *)
(***************************************************************************)
MaxLen == 4        \* bytes in a string handed to processLine under SpecPL
MaxLines == 2      \* lines in the input stream
MaxFlags == 3      \* -success and -failure flags on the command line

(***************************************************************************)
(* Bytes and code points                                                   *)
(***************************************************************************)
Backspace == 8     \* '\b'
RuneError == 65533 \* U+FFFD, what the range loop yields for a bad byte

\* Bytes the bounded strings are built from:
\*   8 '\b', 13 '\r', 65 'A', 66 'B',
\*   194 133 = U+0085 (a C1 control), 194 169 = U+00A9 (copyright sign);
\*   194, 133 and 169 standing alone are invalid UTF-8.
Bytes == {8, 13, 65, 66, 194, 133, 169}

RECURSIVE SeqsUpTo(_, _)
SeqsUpTo(S, n) ==
    IF n = 0 THEN {<<>>}
    ELSE LET shorter == SeqsUpTo(S, n - 1)
         IN shorter \cup {Append(s, x) : s \in {t \in shorter : Len(t) = n - 1}, x \in S}

ByteAt(s, i) == IF i >= 1 /\ i <= Len(s) THEN s[i] ELSE -1

IsCont(b) == b >= 128 /\ b <= 191

\* The loop indexing bytes instead of ranging over code points.
DecodeByte(s, i) == [r |-> s[i], w |-> 1]

\* One iteration of `for _, char := range line`: the code point at byte
\* offset i and the number of bytes it takes.  An invalid or truncated
\* encoding yields RuneError and advances one byte.
DecodeRune(s, i) ==
    LET b0 == s[i]
        b1 == ByteAt(s, i + 1)
        b2 == ByteAt(s, i + 2)
        b3 == ByteAt(s, i + 3)
        bad == [r |-> RuneError, w |-> 1]
    IN  IF b0 < 128 THEN [r |-> b0, w |-> 1]
        ELSE IF b0 >= 194 /\ b0 <= 223 THEN
            IF IsCont(b1) THEN [r |-> (b0 - 192) * 64 + (b1 - 128), w |-> 2]
            ELSE bad
        ELSE IF b0 >= 224 /\ b0 <= 239 THEN
            LET lo == IF b0 = 224 THEN 160 ELSE 128
                hi == IF b0 = 237 THEN 159 ELSE 191
            IN  IF b1 >= lo /\ b1 <= hi /\ IsCont(b2)
                THEN [r |-> (b0 - 224) * 4096 + (b1 - 128) * 64 + (b2 - 128), w |-> 3]
                ELSE bad
        ELSE IF b0 >= 240 /\ b0 <= 244 THEN
            LET lo == IF b0 = 240 THEN 144 ELSE 128
                hi == IF b0 = 244 THEN 143 ELSE 191
            IN  IF b1 >= lo /\ b1 <= hi /\ IsCont(b2) /\ IsCont(b3)
                THEN [r |-> (b0 - 240) * 262144 + (b1 - 128) * 4096
                            + (b2 - 128) * 64 + (b3 - 128), w |-> 4]
                ELSE bad
        ELSE bad

\* The output built from byte(char): a code point below 256 becomes one byte.
EncodeRuneAsByte(r) == IF r >= 0 /\ r < 256 THEN <<r>> ELSE <<239, 191, 189>>

\* string(rune): the UTF-8 encoding of one code point.
EncodeRune(r) ==
    IF r < 0 \/ r > 1114111 \/ (r >= 55296 /\ r <= 57343) THEN <<239, 191, 189>>
    ELSE IF r < 128 THEN <<r>>
    ELSE IF r < 2048 THEN <<192 + (r \div 64), 128 + (r % 64)>>
    ELSE IF r < 65536 THEN
        <<224 + (r \div 4096), 128 + ((r \div 64) % 64), 128 + (r % 64)>>
    ELSE <<240 + (r \div 262144), 128 + ((r \div 4096) % 64),
           128 + ((r \div 64) % 64), 128 + (r % 64)>>

\* string(result)
RECURSIVE EncodeRunes(_)
EncodeRunes(rs) ==
    IF rs = <<>> THEN <<>> ELSE EncodeRune(Head(rs)) \o EncodeRunes(Tail(rs))

\* The code points a range loop yields for the bytes of s from offset i on.
RECURSIVE RunesFrom(_, _)
RunesFrom(s, i) ==
    IF i > Len(s) THEN <<>>
    ELSE LET d == DecodeRune(s, i) IN <<d.r>> \o RunesFrom(s, i + d.w)

Runes(s) == RunesFrom(s, 1)

\* unicode.IsControl: category Cc, U+0000..U+001F and U+007F..U+009F.
IsControl(r) == (r >= 0 /\ r <= 31) \/ (r >= 127 /\ r <= 159)

(***************************************************************************)
(* processLine                                                             *)
(***************************************************************************)
\* The switch without its first case: a backspace is only discarded.
StepDropsBackspace(result, char) ==
    IF IsControl(char) THEN result ELSE Append(result, char)

\* The switch with a control character returning to the start of the line.
StepControlOverwrites(result, char) ==
    IF char = Backspace THEN
        IF Len(result) > 0 THEN SubSeq(result, 1, Len(result) - 1) ELSE result
    ELSE IF IsControl(char) THEN <<>>
    ELSE Append(result, char)

\* The switch showing a control character in caret notation ("^M").
StepShowsControl(result, char) ==
    IF char = Backspace THEN
        IF Len(result) > 0 THEN SubSeq(result, 1, Len(result) - 1) ELSE result
    ELSE IF IsControl(char) THEN result \o <<94, (char + 64) % 128>>
    ELSE Append(result, char)

\* The switch keeping control characters in the buffer.
StepKeepsControl(result, char) ==
    IF char = Backspace THEN
        IF Len(result) > 0 THEN SubSeq(result, 1, Len(result) - 1) ELSE result
    ELSE Append(result, char)

\* The switch in the body of processLine's loop.
Step(result, char) ==
    IF char = Backspace THEN
        IF Len(result) > 0 THEN SubSeq(result, 1, Len(result) - 1) ELSE result
    ELSE IF IsControl(char) THEN result
    ELSE Append(result, char)

\* The loop of processLine from byte offset i on, with `result` so far.
RECURSIVE ScanFrom(_, _, _)
ScanFrom(line, i, result) ==
    IF i > Len(line) THEN result
    ELSE LET d == DecodeRune(line, i)
         IN ScanFrom(line, i + d.w, Step(result, d.r))

processLine(line) == EncodeRunes(ScanFrom(line, 1, <<>>))

(***************************************************************************)
(* processLine, one loop iteration at a time                               *)
(***************************************************************************)
InitProcessLine ==
    /\ plLine \in SeqsUpTo(Bytes, MaxLen)
    /\ plPos = 1
    /\ plResult = <<>>
    /\ plScanned = <<>>
    /\ plOut = <<>>
    /\ plPc = "scan"

IdleProcessLine ==
    /\ plLine = <<>>
    /\ plPos = 1
    /\ plResult = <<>>
    /\ plScanned = <<>>
    /\ plOut = <<>>
    /\ plPc = "idle"

\* The range loop has a code point left to yield.
InLoop == plPc = "scan" /\ plPos <= Len(plLine)

\* The code point the range loop yields next.
Char == DecodeRune(plLine, plPos).r

\* One iteration of the range loop.
Iterate ==
    /\ plResult' = Step(plResult, Char)
    /\ plScanned' = Append(plScanned, Char)
    /\ plPos' = plPos + DecodeRune(plLine, plPos).w
    /\ UNCHANGED <<plLine, plOut, plPc, mainVars>>

\* case char == '\b'
IsBackspaceCase(char) == char = Backspace
\* case unicode.IsControl(char)
IsControlCase(char) == char # Backspace /\ IsControl(char)
\* default
IsDefaultCase(char) == char # Backspace /\ ~IsControl(char)

ScanBackspace == InLoop /\ IsBackspaceCase(Char) /\ Iterate
ScanControl == InLoop /\ IsControlCase(Char) /\ Iterate
ScanDefault == InLoop /\ IsDefaultCase(Char) /\ Iterate

\* return string(result)
ScanReturn ==
    /\ plPc = "scan"
    /\ plPos > Len(plLine)
    /\ plOut' = EncodeRunes(plResult)
    /\ plPc' = "done"
    /\ UNCHANGED <<plLine, plPos, plResult, plScanned, mainVars>>

(***************************************************************************)
(* Patterns                                                                *)
(***************************************************************************)
\* Pattern strings of the bounded command lines: "A", "B" and "[A".
PatternStrings == {<<65>>, <<66>>, <<91, 65>>}

\* regexp.Compile on these pattern strings: a '[' that is never closed is a
\* syntax error; every other string here is a literal.
CompileOk(value) ==
    ~\E i \in 1..Len(value) :
        /\ value[i] = 91
        /\ \A j \in (i + 1)..Len(value) : value[j] # 93

\* pattern.MatchString(s) for a literal pattern: unanchored substring search
\* over the code points of s.
MatchString(pattern, s) ==
    LET rs == Runes(s)
    IN  \E k \in 0..(Len(rs) - Len(pattern)) :
            SubSeq(rs, k + 1, k + Len(pattern)) = pattern

\* Set without the error return: the value is appended uncompiled.
SetUnchecked(r, value) == [err |-> FALSE, r |-> Append(r, value)]

\* Set putting the compiled pattern in front of the slice.
SetPrepends(r, value) ==
    IF CompileOk(value)
    THEN [err |-> FALSE, r |-> <<value>> \o r]
    ELSE [err |-> TRUE, r |-> r]

\* RegexSlice.Set: the error flag and the slice afterwards.
Set(r, value) ==
    IF CompileOk(value)
    THEN [err |-> FALSE, r |-> Append(r, value)]
    ELSE [err |-> TRUE, r |-> r]

Msg(text, arg) == [msg |-> text, arg |-> arg]

(***************************************************************************)
(* main                                                                    *)
(***************************************************************************)
\* Lines of the bounded input streams: "A", "AB", "\bA\bB" and "\t".
LineSet == {<<65>>, <<65, 66>>, <<8, 65, 8, 66>>, <<9>>}

\* A stream delivers its lines and then ends with io.EOF or a read error.
Inputs == [lines : SeqsUpTo(LineSet, MaxLines), err : BOOLEAN]

Variants == {"minimal", "extended"}

InitMain ==
    /\ variant \in Variants
    /\ successPatterns = <<>>
    /\ failurePatterns = <<>>
    /\ quiet = FALSE
    /\ showHelp = FALSE
    /\ invalidGiven = FALSE
    /\ nargs = 0
    /\ source = "none"
    /\ fileState = "none"
    /\ nread = 0
    /\ processedLine = <<>>
    /\ si = 0
    /\ fi = 0
    /\ evals = 0
    /\ stdout = <<>>
    /\ stderr = <<>>
    /\ pc = "parse"
    /\ exitStatus = -1

\* os.Exit(status)
Exit(status) ==
    /\ pc' = "exit"
    /\ exitStatus' = status

\* printHelp: usage text on stderr, then os.Exit(99).
HelpStatus == 99
printHelp(err) ==
    /\ stderr' = Append(err, Msg("usage", <<>>))
    /\ Exit(HelpStatus)

\* What flag.Parse does when a flag's Set returns an error: it reports the
\* error and calls flag.Usage.  The extended variant's flag.Usage is
\* printHelp, which exits 99; the minimal variant keeps the default usage
\* and flag.ExitOnError exits 2.
FlagErrorStatus(v) == IF v = "extended" THEN HelpStatus ELSE 2

FlagError(value) ==
    /\ stderr' = stderr \o <<Msg("invalid regex pattern", value), Msg("usage", <<>>)>>
    /\ Exit(FlagErrorStatus(variant))

(***************************************************************************)
(* main: flag.Parse                                                        *)
(* The command lines considered hold flags the variant defines, each       *)
(* pattern flag with its value, followed by the positional arguments.      *)
(***************************************************************************)
MaxArgs == 2       \* positional arguments on the command line

\* -success value: flag.Parse calls successPatterns.Set(value)
ParseSuccess ==
    /\ pc = "parse"
    /\ Len(successPatterns) + Len(failurePatterns) < MaxFlags
    /\ \E value \in PatternStrings :
        LET res == Set(successPatterns, value)
        IN  /\ successPatterns' = res.r
            /\ invalidGiven' = (invalidGiven \/ ~CompileOk(value))
            /\ IF res.err THEN FlagError(value)
               ELSE UNCHANGED <<stderr, pc, exitStatus>>
    /\ UNCHANGED <<variant, failurePatterns, quiet, showHelp, nargs, input,
                   source, fileState, nread, processedLine, si, fi, evals,
                   stdout, plVars>>

\* -failure value: flag.Parse calls failurePatterns.Set(value)
ParseFailure ==
    /\ pc = "parse"
    /\ Len(successPatterns) + Len(failurePatterns) < MaxFlags
    /\ \E value \in PatternStrings :
        LET res == Set(failurePatterns, value)
        IN  /\ failurePatterns' = res.r
            /\ invalidGiven' = (invalidGiven \/ ~CompileOk(value))
            /\ IF res.err THEN FlagError(value)
               ELSE UNCHANGED <<stderr, pc, exitStatus>>
    /\ UNCHANGED <<variant, successPatterns, quiet, showHelp, nargs, input,
                   source, fileState, nread, processedLine, si, fi, evals,
                   stdout, plVars>>

\* -quiet (extended variant)
ParseQuiet ==
    /\ pc = "parse"
    /\ variant = "extended"
    /\ quiet' = TRUE
    /\ UNCHANGED <<variant, successPatterns, failurePatterns, showHelp,
                   invalidGiven, nargs, input, source, fileState,
                   nread, processedLine, si, fi, evals, stdout, stderr, pc,
                   exitStatus, plVars>>

\* -help (extended variant)
ParseHelp ==
    /\ pc = "parse"
    /\ variant = "extended"
    /\ showHelp' = TRUE
    /\ UNCHANGED <<variant, successPatterns, failurePatterns, quiet,
                   invalidGiven, nargs, input, source, fileState,
                   nread, processedLine, si, fi, evals, stdout, stderr, pc,
                   exitStatus, plVars>>

\* len(flag.Args()) on the command lines considered; the minimal variant
\* never calls flag.Args(), it runs with none
ArgCounts(v) == IF v = "extended" THEN 0..MaxArgs ELSE {0}

\* flag.Parse returns; the rest of the command line is flag.Args()
ParseDone ==
    /\ pc = "parse"
    /\ \E n \in ArgCounts(variant) : nargs' = n
    /\ pc' = "start"
    /\ UNCHANGED <<variant, successPatterns, failurePatterns, quiet, showHelp,
                   invalidGiven, input, source, fileState, nread,
                   processedLine, si, fi, evals, stdout, stderr, exitStatus,
                   plVars>>

(***************************************************************************)
(* main: from flag.Parse to the scanner                                    *)
(***************************************************************************)
configVars == <<variant, successPatterns, failurePatterns, quiet, showHelp,
                invalidGiven, nargs>>

loopVars == <<nread, processedLine, si, fi, evals, stdout>>

\* if showHelp { printHelp() }
HelpRequested ==
    /\ pc = "start"
    /\ variant = "extended"
    /\ showHelp
    /\ printHelp(stderr)
    /\ UNCHANGED <<configVars, loopVars, input, source, fileState, plVars>>

\* The too-many-arguments branch without its printHelp(): the message is
\* printed and main goes on to os.Open(args[0]).
TooManyArgsOpensFirst ==
    /\ pc = "start"
    /\ variant = "extended"
    /\ ~showHelp
    /\ nargs > 1
    /\ stderr' = Append(stderr, Msg("Too many positional arguments provided.", <<>>))
    /\ \E in \in Inputs : input' = in
    /\ source' = "file"
    /\ fileState' = "open"
    /\ pc' = "scan"
    /\ UNCHANGED <<configVars, loopVars, exitStatus, plVars>>

\* if len(args) > 1 { ...; printHelp() }
TooManyArgs ==
    /\ pc = "start"
    /\ variant = "extended"
    /\ ~showHelp
    /\ nargs > 1
    /\ printHelp(Append(stderr, Msg("Too many positional arguments provided.", <<>>)))
    /\ UNCHANGED <<configVars, loopVars, input, source, fileState, plVars>>

\* os.Open fails and the os.Exit(2) is missing: input is still os.Stdin.
OpenFailFallsBack ==
    /\ pc = "start"
    /\ variant = "extended"
    /\ ~showHelp
    /\ nargs = 1
    /\ stderr' = Append(stderr, Msg("Error opening file", <<>>))
    /\ \E in \in Inputs : input' = in
    /\ source' = "stdin"
    /\ pc' = "scan"
    /\ UNCHANGED <<configVars, loopVars, fileState, exitStatus, plVars>>

\* os.Open(args[0]) returns an error
OpenFail ==
    /\ pc = "start"
    /\ variant = "extended"
    /\ ~showHelp
    /\ nargs = 1
    /\ stderr' = Append(stderr, Msg("Error opening file", <<>>))
    /\ Exit(2)
    /\ UNCHANGED <<configVars, loopVars, input, source, fileState, plVars>>

\* os.Open(args[0]) succeeds; defer file.Close(); input = file.
\* The deferred Close would run when main returns; main never returns, it
\* leaves through os.Exit on every path, and os.Exit runs no deferred call.
OpenFile ==
    /\ pc = "start"
    /\ variant = "extended"
    /\ ~showHelp
    /\ nargs = 1
    /\ \E in \in Inputs : input' = in
    /\ source' = "file"
    /\ fileState' = "open"
    /\ pc' = "scan"
    /\ UNCHANGED <<configVars, loopVars, stderr, exitStatus, plVars>>

\* the scanner reads os.Stdin: always in the minimal variant, without a
\* positional argument in the extended one
UseStdin ==
    /\ pc = "start"
    /\ \/ variant = "minimal"
       \/ variant = "extended" /\ ~showHelp /\ nargs = 0
    /\ \E in \in Inputs : input' = in
    /\ source' = "stdin"
    /\ pc' = "scan"
    /\ UNCHANGED <<configVars, loopVars, fileState, stderr, exitStatus, plVars>>

(***************************************************************************)
(* main: the decision loop                                                 *)
(***************************************************************************)
\* The two pattern loops in the other order.
LoopPcFailureFirst(s, f) ==
    IF f < Len(failurePatterns) THEN "failure"
    ELSE IF s < Len(successPatterns) THEN "success"
    ELSE "scan"

\* Where the loop body stands when s success and f failure patterns have
\* been evaluated without a match: the success loop runs first, then the
\* failure loop, then the next scanner.Scan().
LoopPc(s, f) ==
    IF s < Len(successPatterns) THEN "success"
    ELSE IF f < Len(failurePatterns) THEN "failure"
    ELSE "scan"

\* The print without its `if !quiet`.
PrintlnIgnoresQuiet(out, text) == Append(out, text)

\* fmt.Println(processedLine), unless -quiet
Println(out, text) == IF quiet THEN out ELSE Append(out, text)

\* The loop printing `line` instead of `processedLine`.
ScanLinePrintsRaw ==
    /\ pc = "scan"
    /\ nread < Len(input.lines)
    /\ nread' = nread + 1
    /\ processedLine' = processLine(input.lines[nread + 1])
    /\ stdout' = Println(stdout, input.lines[nread + 1])
    /\ si' = 0
    /\ fi' = 0
    /\ pc' = LoopPc(0, 0)
    /\ UNCHANGED <<configVars, input, source, fileState, evals, stderr,
                   exitStatus, plVars>>

\* processLine's `result` declared outside the function: each line is
\* scanned onto what the line before left in the buffer.
ScanLineKeepsBuffer ==
    /\ pc = "scan"
    /\ nread < Len(input.lines)
    /\ nread' = nread + 1
    /\ processedLine' =
          EncodeRunes(ScanFrom(input.lines[nread + 1], 1, Runes(processedLine)))
    /\ stdout' = Println(stdout, processedLine')
    /\ si' = 0
    /\ fi' = 0
    /\ pc' = LoopPc(0, 0)
    /\ UNCHANGED <<configVars, input, source, fileState, evals, stderr,
                   exitStatus, plVars>>

\* scanner.Scan() delivers a line; it is normalised and printed
ScanLine ==
    /\ pc = "scan"
    /\ nread < Len(input.lines)
    /\ nread' = nread + 1
    /\ processedLine' = processLine(input.lines[nread + 1])
    /\ stdout' = Println(stdout, processedLine')
    /\ si' = 0
    /\ fi' = 0
    /\ pc' = LoopPc(0, 0)
    /\ UNCHANGED <<configVars, input, source, fileState, evals, stderr,
                   exitStatus, plVars>>

\* The success loop left at the first pattern that does not match.
MatchSuccessStopsAtMiss ==
    /\ pc = "success"
    /\ si < Len(successPatterns)
    /\ evals' = evals + 1
    /\ si' = si + 1
    /\ IF MatchString(successPatterns[si + 1], processedLine)
       THEN Exit(0)
       ELSE pc' = LoopPc(Len(successPatterns), fi) /\ UNCHANGED exitStatus
    /\ UNCHANGED <<configVars, input, source, fileState, nread,
                   processedLine, fi, stdout, stderr, plVars>>

\* one iteration of `for _, pattern := range successPatterns`
MatchSuccess ==
    /\ pc = "success"
    /\ si < Len(successPatterns)
    /\ evals' = evals + 1
    /\ si' = si + 1
    /\ IF MatchString(successPatterns[si + 1], processedLine)
       THEN Exit(0)
       ELSE pc' = LoopPc(si + 1, fi) /\ UNCHANGED exitStatus
    /\ UNCHANGED <<configVars, input, source, fileState, nread,
                   processedLine, fi, stdout, stderr, plVars>>

\* The failure loop without its os.Exit(1): a match is passed over.
MatchFailureContinues ==
    /\ pc = "failure"
    /\ fi < Len(failurePatterns)
    /\ evals' = evals + 1
    /\ fi' = fi + 1
    /\ pc' = LoopPc(si, fi + 1)
    /\ UNCHANGED <<configVars, input, source, fileState, nread,
                   processedLine, si, stdout, stderr, exitStatus, plVars>>

\* one iteration of `for _, pattern := range failurePatterns`
MatchFailure ==
    /\ pc = "failure"
    /\ fi < Len(failurePatterns)
    /\ evals' = evals + 1
    /\ fi' = fi + 1
    /\ IF MatchString(failurePatterns[fi + 1], processedLine)
       THEN Exit(1)
       ELSE pc' = LoopPc(si, fi + 1) /\ UNCHANGED exitStatus
    /\ UNCHANGED <<configVars, input, source, fileState, nread,
                   processedLine, si, stdout, stderr, plVars>>

\* End of input with the minimal variant's status in both variants.
EofStatusAlwaysZero(v) == 0

\* End of input with the extended variant's status in both variants.
EofStatusThreeInBoth(v) == 3

\* Status at io.EOF: os.Exit(3) in the extended variant, the return from
\* main in the minimal one.
EofStatus(v) == IF v = "extended" THEN 3 ELSE 0

\* A read error reported with the status of end of input.
ReadErrorStatusOfEof == EofStatus("extended")

\* scanner.Scan() returns false and scanner.Err() is not nil
ReadErrorStatus == 2
ReadError ==
    /\ pc = "scan"
    /\ nread = Len(input.lines)
    /\ input.err
    /\ stderr' = Append(stderr, Msg("Error reading from stdin", <<>>))
    /\ Exit(ReadErrorStatus)
    /\ UNCHANGED <<configVars, loopVars, input, source, fileState, plVars>>

\* The loop's exit without the scanner.Err() check.
EndOfInputIgnoresErr ==
    /\ pc = "scan"
    /\ nread = Len(input.lines)
    /\ stderr' = IF variant = "extended"
                 THEN Append(stderr, Msg("EOF found but no matching lines were detected", <<>>))
                 ELSE stderr
    /\ Exit(EofStatus(variant))
    /\ UNCHANGED <<configVars, loopVars, input, source, fileState, plVars>>

\* The loop left as if at end of input while the scanner still has lines.
EndOfInputWithLinesLeft ==
    /\ pc = "scan"
    /\ ~input.err
    /\ stderr' = IF variant = "extended"
                 THEN Append(stderr, Msg("EOF found but no matching lines were detected", <<>>))
                 ELSE stderr
    /\ Exit(EofStatus(variant))
    /\ UNCHANGED <<configVars, loopVars, input, source, fileState, plVars>>

\* scanner.Scan() returns false at io.EOF: the extended variant reports it
\* and exits 3, the minimal variant returns from main
EndOfInput ==
    /\ pc = "scan"
    /\ nread = Len(input.lines)
    /\ ~input.err
    /\ stderr' = IF variant = "extended"
                 THEN Append(stderr, Msg("EOF found but no matching lines were detected", <<>>))
                 ELSE stderr
    /\ Exit(EofStatus(variant))
    /\ UNCHANGED <<configVars, loopVars, input, source, fileState, plVars>>

(***************************************************************************)
(* main's loop as a function of its inputs                                 *)
(***************************************************************************)
\* Index of the first pattern of the list, in list order, that matches the
\* text: where a `for ... range` loop over the list stops; 0 if none does.
FirstMatch(list, text) ==
    IF \E i \in 1..Len(list) : MatchString(list[i], text)
    THEN CHOOSE i \in 1..Len(list) :
            /\ MatchString(list[i], text)
            /\ \A j \in 1..(i - 1) : ~MatchString(list[j], text)
    ELSE 0

\* What the loop body does with one normalized line: exit 0, exit 1, or go
\* on to the next line (-1).
LineOutcome(S, F, text) ==
    IF FirstMatch(S, text) # 0 THEN 0
    ELSE IF FirstMatch(F, text) # 0 THEN 1
    ELSE -1

\* The loop from the k-th line on: the exit status and the lines read.
RECURSIVE RunFrom(_, _, _, _, _)
RunFrom(v, S, F, in, k) ==
    IF k > Len(in.lines)
    THEN [status |-> IF in.err THEN ReadErrorStatus ELSE EofStatus(v),
          nread |-> Len(in.lines)]
    ELSE LET outcome == LineOutcome(S, F, processLine(in.lines[k]))
         IN  IF outcome # -1
             THEN [status |-> outcome, nread |-> k]
             ELSE RunFrom(v, S, F, in, k + 1)

\* A run of variant v from the first scanner.Scan() on, with the quiet flag
\* q and the pattern lists S and F: status, lines read, standard output.
Run(v, q, S, F, in) ==
    LET end == RunFrom(v, S, F, in, 1)
    IN  [status |-> end.status,
         nread |-> end.nread,
         out |-> IF q THEN <<>>
                 ELSE [k \in 1..end.nread |-> processLine(in.lines[k])]]

(***************************************************************************)
(* Specifications                                                          *)
(***************************************************************************)
Init == InitMain /\ input = [lines |-> <<>>, err |-> FALSE] /\ IdleProcessLine

Next ==
    \/ ParseSuccess
    \/ ParseFailure
    \/ ParseQuiet
    \/ ParseHelp
    \/ ParseDone
    \/ HelpRequested
    \/ TooManyArgs
    \/ OpenFail
    \/ OpenFile
    \/ UseStdin
    \/ ScanLine
    \/ MatchSuccess
    \/ MatchFailure
    \/ ReadError
    \/ EndOfInput

Spec == Init /\ [][Next]_vars

\* main is one goroutine that nothing preempts for good, and the finite
\* stream answers every scanner.Scan(): a step the loop can take is taken.
SpecFair ==
    Spec /\ WF_vars(ScanLine \/ MatchSuccess \/ MatchFailure \/ ReadError \/ EndOfInput)

\* processLine alone, called on every bounded byte string; main is not run
InitPL ==
    /\ InitMain
    /\ variant = "extended"
    /\ input = [lines |-> <<>>, err |-> FALSE]
    /\ InitProcessLine

NextPL ==
    \/ ScanBackspace
    \/ ScanControl
    \/ ScanDefault
    \/ ScanReturn

SpecPL == InitPL /\ [][NextPL]_vars

(***************************************************************************)
(* The decision a run should reach, read off the input and the pattern     *)
(* lists                                                                   *)
(***************************************************************************)
MatchesAny(list, text) == \E i \in 1..Len(list) : MatchString(list[i], text)

\* normalized form of the k-th line of the stream
Normalized(k) == processLine(input.lines[k])

Decisive(k) ==
    \/ MatchesAny(successPatterns, Normalized(k))
    \/ MatchesAny(failurePatterns, Normalized(k))

\* index of the first line that matches a pattern, 0 if there is none
FirstDecisive ==
    IF \E k \in 1..Len(input.lines) : Decisive(k)
    THEN CHOOSE k \in 1..Len(input.lines) :
            Decisive(k) /\ \A j \in 1..(k - 1) : ~Decisive(j)
    ELSE 0

\* status a decisive line stands for
LineStatus(k) == IF MatchesAny(successPatterns, Normalized(k)) THEN 0 ELSE 1

\* what the first n lines leave on standard output
Echo(n) == IF quiet THEN <<>> ELSE [k \in 1..n |-> Normalized(k)]

Reported(text) == \E i \in 1..Len(stderr) : stderr[i].msg = text

Exited == pc = "exit"
Reading == source # "none"

(***************************************************************************)
(* Properties of the decision loop                                         *)
(***************************************************************************)
\* C1: a line whose normalized form matches both a success and a failure
\* pattern ends the run with status 0, never 1: no failure pattern is
\* evaluated for a line before every success pattern has been, in whatever
\* order the -success and -failure flags were parsed.
C1_SuccessBeforeFailure ==
    /\ (pc = "failure" \/ fi > 0) => si = Len(successPatterns)
    /\ ( /\ nread > 0
         /\ MatchesAny(successPatterns, processedLine)
         /\ MatchesAny(failurePatterns, processedLine) )
       => /\ fi = 0
          /\ pc = "success" \/ (Exited /\ exitStatus = 0)

C1_Witness ==
    /\ Exited /\ exitStatus = 0
    /\ si = 2
    /\ MatchesAny(successPatterns, processedLine)
    /\ MatchesAny(failurePatterns, processedLine)

\* C2: the first line, in input order, whose normalized form matches any
\* pattern decides the exit status; no later line is read, printed or
\* matched, even if it would match a pattern of the other kind.
C2_FirstMatchDecides ==
    LET first == FirstDecisive
    IN  (Reading /\ first # 0) =>
            /\ nread <= first
            /\ Len(stdout) <= first
            /\ evals <= first * (Len(successPatterns) + Len(failurePatterns))
            /\ pc = "scan" => nread < first
            /\ Exited => /\ nread = first
                         /\ processedLine = Normalized(first)
                         /\ exitStatus = LineStatus(first)

C2_Witness ==
    /\ Exited /\ exitStatus = 1
    /\ nread = 1
    /\ Len(input.lines) >= 2
    /\ MatchesAny(successPatterns, Normalized(2))
    /\ ~MatchesAny(failurePatterns, Normalized(2))

\* C3: in the extended variant, an input that ends without a read error and
\* without a line matching any pattern ends the run with status 3.
C3_NoMatchExits3 ==
    (variant = "extended" /\ Exited /\ Reading /\ ~input.err /\ FirstDecisive = 0)
        => exitStatus = 3 /\ nread = Len(input.lines)

C3_Witness ==
    /\ variant = "extended" /\ Exited /\ exitStatus = 3
    /\ nread >= 2
    /\ successPatterns # <<>>
    /\ failurePatterns # <<>>

\* C4: in the extended variant, once the input source is chosen, the exit
\* status names the outcome: 0 only after a line matching a success
\* pattern, 1 only when the deciding line matches a failure pattern and no
\* success pattern, 2 only after an open or read error, 3 only when every
\* line was read without error and none matched.
C4_StatusIdentifiesOutcome ==
    (variant = "extended" /\ Exited /\ (Reading \/ Reported("Error opening file"))) =>
        /\ exitStatus \in {0, 1, 2, 3}
        /\ exitStatus = 0 =>
              /\ nread > 0
              /\ MatchesAny(successPatterns, Normalized(nread))
        /\ exitStatus = 1 =>
              /\ nread > 0
              /\ MatchesAny(failurePatterns, Normalized(nread))
              /\ ~MatchesAny(successPatterns, Normalized(nread))
        /\ exitStatus = 2 =>
              \/ ~Reading /\ Reported("Error opening file")
              \/ Reading /\ input.err /\ nread = Len(input.lines)
                         /\ Reported("Error reading from stdin")
        /\ exitStatus = 3 =>
              /\ ~input.err
              /\ nread = Len(input.lines)
              /\ \A k \in 1..Len(input.lines) : ~Decisive(k)

C4_Witness ==
    /\ variant = "extended" /\ Exited /\ exitStatus = 1
    /\ source = "file"
    /\ nread >= 2
    /\ successPatterns # <<>>

\* C5: a read error before any line has matched ends the run with status 2
\* in both variants; the lines delivered before the error are normalized,
\* echoed and matched, and a match among them decides the status instead.
C5_ReadErrorExits2 ==
    (Exited /\ Reading /\ input.err) =>
        LET first == FirstDecisive
        IN  IF first = 0
            THEN /\ exitStatus = 2
                 /\ nread = Len(input.lines)
                 /\ stdout = Echo(Len(input.lines))
                 /\ evals = Len(input.lines) * (Len(successPatterns) + Len(failurePatterns))
            ELSE /\ exitStatus = LineStatus(first)
                 /\ nread = first
                 /\ stdout = Echo(first)

C5_Witness ==
    /\ variant = "minimal" /\ Exited /\ exitStatus = 2
    /\ input.err
    /\ nread >= 2
    /\ Len(stdout) = nread
    /\ evals >= 2

\* C6: in the extended variant, when the one positional argument names a
\* file that os.Open cannot open, the run ends with status 2; no line is
\* read, printed or matched, and standard input is not read instead.
C6_OpenFailureExits2 ==
    (variant = "extended" /\ Reported("Error opening file")) =>
        /\ Exited /\ exitStatus = 2
        /\ nargs = 1
        /\ source = "none"
        /\ fileState = "none"
        /\ nread = 0
        /\ stdout = <<>>
        /\ evals = 0

C6_Witness ==
    /\ variant = "extended" /\ Exited /\ exitStatus = 2
    /\ Reported("Error opening file")
    /\ nargs = 1
    /\ successPatterns # <<>>
    /\ nread = 0

\* C7: a -success or -failure value that is not a regular expression is
\* reported, with the value, and ends the run at once: no file is opened,
\* no line is read, printed or matched, and no uncompiled pattern is kept.
C7_InvalidPatternStopsStartup ==
    /\ \A i \in 1..Len(successPatterns) : CompileOk(successPatterns[i])
    /\ \A i \in 1..Len(failurePatterns) : CompileOk(failurePatterns[i])
    /\ invalidGiven =>
          /\ Exited
          /\ exitStatus # 0
          /\ \E i \in 1..Len(stderr) :
                /\ stderr[i].msg = "invalid regex pattern"
                /\ ~CompileOk(stderr[i].arg)
          /\ source = "none"
          /\ fileState = "none"
          /\ nread = 0
          /\ stdout = <<>>
          /\ evals = 0

C7_Witness ==
    /\ invalidGiven /\ Exited
    /\ Reported("invalid regex pattern")
    /\ Len(successPatterns) = 1
    /\ Len(failurePatterns) = 1

(***************************************************************************)
(* Properties of processLine                                               *)
(***************************************************************************)
Take(s, n) == SubSeq(s, 1, n)
Drop(s, n) == SubSeq(s, n + 1, Len(s))
Max(a, b) == IF a >= b THEN a ELSE b

AllBackspace(rs) == \A i \in 1..Len(rs) : rs[i] = Backspace
NotControl(r) == ~IsControl(r)
NoControl(rs) == \A i \in 1..Len(rs) : NotControl(rs[i])

\* `result` after the loop has met the code points rs, starting from result
RECURSIVE Fold(_, _)
Fold(rs, result) ==
    IF rs = <<>> THEN result ELSE Fold(Tail(rs), Step(result, Head(rs)))

\* C8: a backspace deletes exactly the last code point of the buffer and does
\* nothing on an empty buffer: after k backspaces in a row the buffer holds
\* the first max(n-k, 0) of the n code points it held before them; code
\* points appended after surplus backspaces are kept; no backspace is ever
\* in the buffer or in the output.
C8_BackspaceDeletesLast ==
    plPc \in {"scan", "done"} =>
        LET len == Len(plScanned)
            out == Runes(plOut)
        IN  /\ \A i \in 1..Len(plResult) : plResult[i] # Backspace
            /\ \A k \in 1..len :
                  AllBackspace(Drop(plScanned, len - k)) =>
                      LET before == Fold(Take(plScanned, len - k), <<>>)
                      IN  plResult = Take(before, Max(Len(before) - k, 0))
            /\ plPc = "done" =>
                  /\ \A i \in 1..Len(out) : out[i] # Backspace
                  /\ \A n \in 0..len, k \in 1..len :
                        ( /\ n + k <= len
                          /\ NoControl(Take(plScanned, n))
                          /\ AllBackspace(SubSeq(plScanned, n + 1, n + k))
                          /\ NoControl(Drop(plScanned, n + k)) )
                        => out = Take(plScanned, Max(n - k, 0)) \o Drop(plScanned, n + k)

C8_Witness ==
    /\ plPc = "done"
    /\ plScanned = <<65, Backspace, Backspace, 66>>
    /\ plOut = <<66>>

\* C9: on a line without a backspace, the output is the line's code points
\* that are not control characters, in their order: a control character is
\* dropped and nothing else is touched.
C9_ControlsDiscarded ==
    (plPc = "done" /\ \A i \in 1..Len(Runes(plLine)) : Runes(plLine)[i] # Backspace)
        => Runes(plOut) = SelectSeq(Runes(plLine), NotControl)

C9_Witness ==
    /\ plPc = "done"
    /\ plLine = <<65, 13, 66>>
    /\ plOut = <<65, 66>>

\* C10: a line without any control character comes back code point for
\* code point; if the line is valid UTF-8 it comes back byte for byte.
C10_IdentityWithoutControls ==
    (plPc = "done" /\ NoControl(Runes(plLine))) =>
        /\ Runes(plOut) = Runes(plLine)
        /\ EncodeRunes(Runes(plLine)) = plLine => plOut = plLine

C10_Witness ==
    /\ plPc = "done"
    /\ plLine = <<65, 194, 169>>
    /\ plOut = plLine

\* C11: the output never has more code points than the input.
C11_OutputNotLonger ==
    plPc = "done" => Len(Runes(plOut)) <= Len(Runes(plLine))

C11_Witness ==
    /\ plPc = "done"
    /\ plLine = <<65, 66, Backspace, 13>>
    /\ Len(Runes(plOut)) = 1

\* C12: processLine applied to its own output returns that output.
C12_Idempotent ==
    plPc = "done" => processLine(plOut) = plOut

C12_Witness ==
    /\ plPc = "done"
    /\ plLine = <<133, 13, 65>>
    /\ plOut = <<239, 191, 189, 65>>
    /\ processLine(plOut) = plOut

\* C17: while processLine scans, the buffer holds no control character and
\* no more code points than have been scanned; a backspace met after
\* discarded control characters deletes the last code point kept before
\* them.
C17_BufferHoldsNoControl ==
    plPc \in {"scan", "done"} =>
        LET len == Len(plScanned)
        IN  /\ NoControl(plResult)
            /\ Len(plResult) <= len
            /\ \A j \in 0..(len - 1) :
                  ( /\ plScanned[len] = Backspace
                    /\ \A i \in (j + 1)..(len - 1) :
                          IsControl(plScanned[i]) /\ plScanned[i] # Backspace
                    /\ NoControl(Take(plScanned, j)) )
                  => plResult = Take(plScanned, Max(j - 1, 0))

C17_Witness ==
    /\ plPc = "done"
    /\ plScanned = <<65, 66, 13, Backspace>>
    /\ plOut = <<65>>

(***************************************************************************)
(* Properties of the output and of whole runs                              *)
(***************************************************************************)
\* C13: without -quiet every line read is printed in normalized form before
\* any of its patterns is evaluated: standard output always holds exactly
\* the normalized forms of the lines read so far, in input order, and at
\* exit those of the lines up to and including the deciding line, or of all
\* lines when none matched.
C13_EchoBeforeMatch ==
    (Reading /\ ~quiet) =>
        /\ stdout = [k \in 1..nread |-> Normalized(k)]
        /\ Exited =>
              LET first == FirstDecisive
              IN  nread = IF first # 0 THEN first ELSE Len(input.lines)

C13_Witness ==
    /\ Exited /\ exitStatus = 1
    /\ ~quiet
    /\ nread = 2
    /\ Len(stdout) = 2
    /\ stdout[1] # input.lines[1]
    /\ MatchesAny(failurePatterns, stdout[2])

\* C14: in the extended variant, whenever the process exits after the named
\* file was opened, the file has been closed.
C14_FileClosedAtExit ==
    (variant = "extended" /\ Exited /\ source = "file") => fileState = "closed"

\* C15: a step changes a pattern list only while flags are parsed, and then
\* only by appending one valid pattern at its end, the other list left as
\* it is; a step that meets an invalid pattern changes neither list; once
\* flag.Parse has returned both lists stay as they are.
PatternsAppendOnly ==
    /\ successPatterns' # successPatterns =>
          /\ pc = "parse"
          /\ failurePatterns' = failurePatterns
          /\ Len(successPatterns') = Len(successPatterns) + 1
          /\ Take(successPatterns', Len(successPatterns)) = successPatterns
          /\ CompileOk(successPatterns'[Len(successPatterns')])
    /\ failurePatterns' # failurePatterns =>
          /\ pc = "parse"
          /\ successPatterns' = successPatterns
          /\ Len(failurePatterns') = Len(failurePatterns) + 1
          /\ Take(failurePatterns', Len(failurePatterns)) = failurePatterns
          /\ CompileOk(failurePatterns'[Len(failurePatterns')])
    /\ (invalidGiven' /\ ~invalidGiven) =>
          UNCHANGED <<successPatterns, failurePatterns>>
    /\ pc # "parse" => UNCHANGED <<successPatterns, failurePatterns>>

C15_PatternsAppendOnly == [][PatternsAppendOnly]_vars

C15_Witness ==
    /\ Exited /\ exitStatus = 0
    /\ nread = 2
    /\ Len(successPatterns) = 2
    /\ successPatterns[1] # successPatterns[2]
    /\ Len(failurePatterns) = 1

\* C16: each line is normalized on its own: the normalized form of the line
\* just read, what is printed for it and whether it ends the run are those
\* of that line alone scanned from an empty buffer, whatever lines came
\* before it.
C16_LinesIndependent ==
    (Reading /\ nread > 0) =>
        /\ processedLine = Normalized(nread)
        /\ ~quiet => stdout[nread] = Normalized(nread)
        /\ pc = "scan" => ~Decisive(nread)
        /\ Exited =>
              IF Decisive(nread)
              THEN exitStatus = LineStatus(nread)
              ELSE nread = Len(input.lines)

C16_Witness ==
    /\ Exited /\ exitStatus = 0
    /\ nread = 2
    /\ Normalized(1) # <<>>
    /\ input.lines[2][1] = Backspace
    /\ Len(Runes(processedLine)) = 1

\* C18: in the extended variant -quiet changes standard output only: the
\* run on the same input and pattern lists with the flag the other way
\* reads as many lines and ends with the same status, and with -quiet
\* nothing is ever written to standard output.
C18_QuietOnlyMutesOutput ==
    variant = "extended" =>
        /\ quiet => stdout = <<>>
        /\ (Exited /\ Reading) =>
              LET other == Run(variant, ~quiet, successPatterns, failurePatterns, input)
              IN  /\ other.nread = nread
                  /\ other.status = exitStatus
                  /\ other.out = IF quiet THEN [k \in 1..nread |-> Normalized(k)]
                                 ELSE <<>>

C18_Witness ==
    /\ variant = "extended" /\ Exited /\ exitStatus = 1
    /\ quiet
    /\ nread = 2
    /\ stdout = <<>>
    /\ evals >= 2

\* C19: with -quiet off and no file argument, the run of the other variant
\* on the same standard input and pattern lists reads the same lines, prints
\* the same output and ends with the same status, except when the input
\* ends without a read error and without a match: then the minimal variant
\* exits 0 and the extended variant exits 3.
OtherVariant == IF variant = "minimal" THEN "extended" ELSE "minimal"

C19_VariantsAgree ==
    (Exited /\ Reading /\ ~quiet /\ source = "stdin") =>
        LET other == Run(OtherVariant, FALSE, successPatterns, failurePatterns, input)
            undecided == FirstDecisive = 0 /\ ~input.err
        IN  /\ other.nread = nread
            /\ other.out = stdout
            /\ ~undecided => other.status = exitStatus
            /\ undecided =>
                  /\ exitStatus = IF variant = "minimal" THEN 0 ELSE 3
                  /\ other.status = IF variant = "minimal" THEN 3 ELSE 0

C19_Witness ==
    /\ variant = "minimal" /\ Exited /\ exitStatus = 0
    /\ ~input.err
    /\ nread = 2
    /\ Len(stdout) = 2
    /\ successPatterns # <<>>
    /\ FirstDecisive = 0

\* C20: permuting the success list or the failure list changes nothing
\* observable: the run with the lists in any other order ends with the same
\* status after the same number of lines and with the same standard output.
Perms(s) ==
    LET n == Len(s)
    IN  {[i \in 1..n |-> s[p[i]]] :
            p \in {f \in [1..n -> 1..n] : \A i, j \in 1..n : f[i] = f[j] => i = j}}

C20_OrderWithinListIrrelevant ==
    (Exited /\ Reading) =>
        \A sp \in Perms(successPatterns), fp \in Perms(failurePatterns) :
            Run(variant, quiet, sp, fp, input)
                = [status |-> exitStatus, nread |-> nread, out |-> stdout]

C20_Witness ==
    /\ Exited /\ exitStatus = 0
    /\ nread = 2
    /\ si = 2
    /\ successPatterns[1] # successPatterns[2]
    /\ failurePatterns # <<>>

\* C21: in the extended variant a run given -help or more than one
\* positional argument never gets past the start of main: it ends with the
\* usage text on standard error and status 99, with no file opened, no line
\* read, nothing printed and no pattern evaluated; and no run that has begun
\* reading its input ends with status 99.
C21_HelpBeforeAnyInput ==
    /\ (variant = "extended" /\ (showHelp \/ nargs > 1)) =>
          /\ pc \in {"parse", "start", "exit"}
          /\ source = "none" /\ fileState = "none"
          /\ nread = 0 /\ evals = 0 /\ stdout = <<>>
          /\ Exited => (exitStatus = HelpStatus /\ Reported("usage"))
    /\ exitStatus = HelpStatus =>
          /\ variant = "extended" /\ ~Reading
          /\ nread = 0 /\ evals = 0 /\ stdout = <<>>
          /\ Reported("usage")

C21_Witness ==
    /\ variant = "extended" /\ Exited /\ exitStatus = HelpStatus
    /\ ~showHelp /\ ~invalidGiven
    /\ nargs = 2
    /\ successPatterns # <<>>
    /\ Reported("Too many positional arguments provided.")

\* C22: a run of the extended variant that has begun reading ends, with a
\* status among 0, 1, 2 and 3; once it has ended nothing changes any more;
\* and it ends at the first line that matches a pattern, or, when no line
\* matches, only after every line of the stream has been read (2 on a read
\* error, 3 at end of input).
C22_EndState ==
    (variant = "extended" /\ Reading /\ Exited) =>
        LET first == FirstDecisive
        IN  /\ exitStatus \in 0..3
            /\ IF first # 0
               THEN nread = first /\ exitStatus = LineStatus(first)
               ELSE /\ nread = Len(input.lines)
                    /\ exitStatus = IF input.err THEN ReadErrorStatus
                                    ELSE EofStatus("extended")

C22_RunTerminates ==
    /\ (variant = "extended" /\ Reading) ~> (Exited /\ exitStatus \in 0..3)
    /\ [][~Exited]_vars
    /\ []C22_EndState

C22_Witness ==
    /\ variant = "extended" /\ Exited /\ exitStatus = 3
    /\ source = "file"
    /\ Len(input.lines) = 2 /\ nread = 2
    /\ successPatterns # <<>> /\ failurePatterns # <<>>
    /\ evals = 4

====
